---- MODULE Spec2Model ----
(***************************************************************************)
(* Work Visibility TODO: the persistence layer of db.py (tasks, checklist  *)
(* items, activity logs) as a state machine.                               *)
(*                                                                         *)
(* The stored state is what has been committed.  Every function of db.py   *)
(* opens its own connection, executes its statements and commits; the      *)
(* statements of a call that writes form one transaction whose writes are  *)
(* invisible to other connections until conn.commit() and are discarded    *)
(* when the call fails before it.  A call that executes a single writing   *)
(* statement and commits is one step; add_item, move_item and delete_task  *)
(* execute several statements and are one step per statement, so that the  *)
(* statements of two callers can interleave; update_task_meta is one step  *)
(* for its UPDATE and one for its commit, so that two of its calls can     *)
(* overlap.                                                                *)
(*                                                                         *)
(* Free text (titles, descriptions, tags, item texts, search text) is a    *)
(* sequence of characters, a character being a string of length one.  Time *)
(* is the value _now() returns, a counter of seconds.  The pages of app.py *)
(* and the login of auth.py are modelled on top of the calls of db.py: one *)
(* browser session, one script run at a time.                              *)
(***************************************************************************)
EXTENDS Integers, Sequences, FiniteSets, TLC

\* ---------------------------------------------------------------- bounds
Procs == {1, 2}            \* concurrent callers (sessions)
MaxTaskId == 2             \* tasks ever created
MaxItemId == 3             \* checklist items ever created
MaxLogId == 1              \* log entries ever created
MaxNow == 1                \* seconds the clock advances
MaxAppLogId == 3           \* log entries written by the pages of app.py
Texts == {<<"m", "i", "l", "k">>}
Actors == {"alice"}
Messages == {"Added item"}
Directions == {"up", "down"}
STATUS == {"Todo", "Done"}
PRIORITY == {"Medium", "High"}
Users == {"alice", "bob"}  \* the usernames of st.secrets["auth"]["users"]

VARIABLES
    tasks,        \* committed rows of table tasks
    task_items,   \* committed rows of table task_items
    task_logs,    \* committed rows of table task_logs
    next_id,      \* next auto-increment id of each table
    call,         \* per caller: the call in progress, its locals, its result
    assigned,     \* history: the <<task_id, position>> pairs stored with new items
    now,          \* the clock: the second _now() returns
    session_state,  \* st.session_state of the browser session
    run,          \* the script run of app.py: the workflow in progress, its outcome
    last          \* history: the call that ended last and the items stored before it

vars == <<tasks, task_items, task_logs, next_id, call, assigned, now,
          session_state, run, last>>

TaskIds == 1..MaxTaskId
ItemIds == 1..MaxItemId
LogIds == 1..MaxLogId

\* a caller that is between calls; the locals keep the values of the last call
IdleCall ==
    [pc |-> "idle", op |-> "none", result |-> "none", exit |-> "none",
     task_id |-> 0,
     item_id |-> 0, direction |-> "none", text |-> <<>>, pos |-> 0,
     nb_id |-> 0, nb_pos |-> 0, tx |-> <<>>,
     actor |-> "", now |-> 0,
     owners |-> {}, statuses |-> {}, search |-> <<>>, rows |-> <<>>]

\* the editable fields of a task, as create_task and update_task_meta take them
Fields(title, description, tags, owner, priority, status, due_date) ==
    [title |-> title, description |-> description, tags |-> tags,
     owner |-> owner, priority |-> priority, status |-> status,
     due_date |-> due_date]

NoFields == Fields(<<>>, <<>>, <<>>, "", "", "", "None")

\* two sets of fields that differ in every field
MetaInputs ==
    {Fields(<<"a">>, <<>>, <<>>, "alice", "Medium", "Todo", "None"),
     Fields(<<"b">>, <<"d">>, <<"t">>, "bob", "High", "Done", "2026-01-01")}

\* the texts an item is given when it is edited
EditTexts == {<<"m", "i", "l", "k">>, <<"t", "e", "a">>}

\* the fields given to the tasks of the specifications about items and logs
TaskInputs == {Fields(<<"a">>, <<>>, <<>>, "alice", "Medium", "Todo", "None")}

NoWrite ==
    [kind |-> "none", id |-> 0, task_id |-> 0, position |-> 0, text |-> <<>>,
     ids |-> {}, fields |-> NoFields, is_done |-> FALSE, actor |-> "", now |-> 0]

\* ------------------------------------------------------------- rows
TaskRow(id, f, created_by, at) ==
    [id |-> id, title |-> f.title, description |-> f.description,
     tags |-> f.tags, owner |-> f.owner, priority |-> f.priority,
     status |-> f.status, due_date |-> f.due_date,
     created_by |-> created_by, created_at |-> at,
     updated_by |-> created_by, updated_at |-> at]

ItemRow(id, task_id, text, position, created_by, at) ==
    [id |-> id, task_id |-> task_id, text |-> text, is_done |-> FALSE,
     position |-> position,
     created_by |-> created_by, created_at |-> at,
     updated_by |-> created_by, updated_at |-> at]

LogRow(id, task_id, actor, message, at) ==
    [id |-> id, task_id |-> task_id, actor |-> actor, message |-> message,
     created_at |-> at]

ItemsOf(its, task_id) == {it \in its : it.task_id = task_id}

Max(S) == CHOOSE x \in S : \A y \in S : y <= x

\* variant: the next position taken from the number of items, COUNT(*) + 1
next_position_count(its, task_id) == Cardinality(ItemsOf(its, task_id)) + 1

\* variant: the next position is the first one no item of the task holds
next_position_first_gap(its, task_id) ==
    CHOOSE n \in 1..(Cardinality(ItemsOf(its, task_id)) + 1) :
        /\ \A it \in ItemsOf(its, task_id) : it.position # n
        /\ \A m \in 1..(n - 1) : \E it \in ItemsOf(its, task_id) : it.position = m

\* SELECT COALESCE(MAX(position), 0) FROM task_items WHERE task_id=? ; + 1
next_position(its, task_id) ==
    (IF ItemsOf(its, task_id) = {} THEN 0
     ELSE Max({it.position : it \in ItemsOf(its, task_id)})) + 1

\* variant: the neighbor query ordered the wrong way (ORDER BY position ASC for
\* up, DESC for down), which returns the farthest row beyond pos
Neighbors_farthest(its, task_id, pos, direction) ==
    LET beyond == IF direction = "up"
                  THEN {it \in ItemsOf(its, task_id) : it.position < pos}
                  ELSE {it \in ItemsOf(its, task_id) : it.position > pos}
    IN  {nb \in beyond :
            \A o \in beyond : IF direction = "up"
                              THEN o.position >= nb.position
                              ELSE o.position <= nb.position}

\* variant: at an edge the neighbor query wraps around to the other end
Neighbors_wrapping(its, task_id, pos, direction) ==
    LET beyond == IF direction = "up"
                  THEN {it \in ItemsOf(its, task_id) : it.position < pos}
                  ELSE {it \in ItemsOf(its, task_id) : it.position > pos}
        others == {it \in ItemsOf(its, task_id) : it.position # pos}
        from == IF beyond # {} THEN beyond ELSE others
    IN  {nb \in from :
            \A o \in from : IF direction = "up"
                            THEN o.position <= nb.position
                            ELSE o.position >= nb.position}

\* the rows the neighbor query of move_item may return: LIMIT 1 of the rows
\* of the task beyond pos, ordered by position towards pos
Neighbors(its, task_id, pos, direction) ==
    LET beyond == IF direction = "up"
                  THEN {it \in ItemsOf(its, task_id) : it.position < pos}
                  ELSE {it \in ItemsOf(its, task_id) : it.position > pos}
    IN  {nb \in beyond :
            \A o \in beyond : IF direction = "up"
                              THEN o.position <= nb.position
                              ELSE o.position >= nb.position}

\* ------------------------------------------------- transactions
\* one write of a transaction, applied to each table
ApplyItems(its, w) ==
    CASE w.kind = "insert_item" ->
            its \cup {ItemRow(w.id, w.task_id, w.text, w.position, w.actor, w.now)}
      [] w.kind = "update_position" ->
            {IF it.id = w.id THEN [it EXCEPT !.position = w.position] ELSE it
                : it \in its}
      [] w.kind = "update_text" ->
            {IF it.id = w.id
             THEN [it EXCEPT !.text = w.text, !.updated_by = w.actor,
                             !.updated_at = w.now]
             ELSE it : it \in its}
      [] w.kind = "update_done" ->
            {IF it.id = w.id
             THEN [it EXCEPT !.is_done = w.is_done, !.updated_by = w.actor,
                             !.updated_at = w.now]
             ELSE it : it \in its}
      [] w.kind = "delete_items" -> {it \in its : it.id \notin w.ids}
      [] OTHER -> its

\* variant: the DELETE on task_logs has no WHERE clause
ApplyLogs_every_row(lgs, w) ==
    IF w.kind = "delete_logs" THEN {} ELSE lgs

ApplyLogs(lgs, w) ==
    IF w.kind = "delete_logs" THEN {lg \in lgs : lg.id \notin w.ids} ELSE lgs

\* variant: the UPDATE on tasks leaves updated_by as it was
ApplyTasks_keeps_updated_by(ts, w) ==
    CASE w.kind = "delete_task" -> {t \in ts : t.id # w.task_id}
      [] w.kind = "update_task" ->
            {IF t.id \in w.ids
             THEN [t EXCEPT !.title = w.fields.title,
                            !.description = w.fields.description,
                            !.tags = w.fields.tags,
                            !.owner = w.fields.owner,
                            !.priority = w.fields.priority,
                            !.status = w.fields.status,
                            !.due_date = w.fields.due_date,
                            !.updated_at = w.now]
             ELSE t : t \in ts}
      [] OTHER -> ts

ApplyTasks(ts, w) ==
    CASE w.kind = "delete_task" -> {t \in ts : t.id # w.task_id}
      [] w.kind = "update_task" ->
            {IF t.id \in w.ids
             THEN [t EXCEPT !.title = w.fields.title,
                            !.description = w.fields.description,
                            !.tags = w.fields.tags,
                            !.owner = w.fields.owner,
                            !.priority = w.fields.priority,
                            !.status = w.fields.status,
                            !.due_date = w.fields.due_date,
                            !.updated_by = w.actor,
                            !.updated_at = w.now]
             ELSE t : t \in ts}
      [] OTHER -> ts

RECURSIVE CommitItems(_, _)
CommitItems(its, tx) ==
    IF tx = <<>> THEN its ELSE CommitItems(ApplyItems(its, Head(tx)), Tail(tx))

RECURSIVE CommitLogs(_, _)
CommitLogs(lgs, tx) ==
    IF tx = <<>> THEN lgs ELSE CommitLogs(ApplyLogs(lgs, Head(tx)), Tail(tx))

RECURSIVE CommitTasks(_, _)
CommitTasks(ts, tx) ==
    IF tx = <<>> THEN ts ELSE CommitTasks(ApplyTasks(ts, Head(tx)), Tail(tx))

\* conn.commit(): the writes of the caller's transaction become the stored state
Commit(p) ==
    /\ tasks' = CommitTasks(tasks, call[p].tx)
    /\ task_items' = CommitItems(task_items, call[p].tx)
    /\ task_logs' = CommitLogs(task_logs, call[p].tx)

Idle(p) == call[p].pc = "idle"

Begin(p, op) == [IdleCall EXCEPT !.op = op]

\* the call of p ends with the given outcome: its connection and its locals are
\* gone, the caller is left with what it passed and what it got back
\* (result: returned or failed; exit: the statement the call left at)
End(c, result, exit) ==
    [IdleCall EXCEPT !.op = c.op, !.result = result, !.exit = exit,
                     !.task_id = c.task_id, !.item_id = c.item_id,
                     !.direction = c.direction]

\* st.session_state before a login: it holds no key
NoSession == [k \in {} |-> [username |-> ""]]

\* no script run has happened yet; a script run that has ended leaves its
\* workflow, what was submitted and its outcome
NoRun ==
    [at |-> "idle", workflow |-> "none", outcome |-> "none", logs |-> FALSE,
     task_id |-> 0, item_id |-> 0, actor |-> "", message |-> <<>>,
     username |-> "", input |-> <<>>]

\* no call has ended yet
NoLast == [op |-> "none", item_id |-> 0, direction |-> "none", exit |-> "none",
           items |-> {}, undoes |-> FALSE]

Init ==
    /\ tasks = {}
    /\ task_items = {}
    /\ task_logs = {}
    /\ next_id = [tasks |-> 1, task_items |-> 1, task_logs |-> 1]
    /\ call = [p \in Procs |-> IdleCall]
    /\ assigned = {}
    /\ now = 0
    /\ session_state = NoSession
    /\ run = NoRun
    /\ last = NoLast

\* ------------------------------------------------------------- tasks
\* create_task: INSERT INTO tasks ...; commit; return the new id
create_task(p, f, created_by) ==
    /\ Idle(p)
    /\ next_id.tasks <= MaxTaskId
    /\ tasks' = tasks \cup {TaskRow(next_id.tasks, f, created_by, now)}
    /\ next_id' = [next_id EXCEPT !.tasks = @ + 1]
    /\ call' = [call EXCEPT ![p] =
            [Begin(p, "create_task") EXCEPT !.task_id = next_id.tasks,
                                            !.result = "returned", !.exit = "commit"]]
    /\ UNCHANGED <<task_items, task_logs>>

\* update_task_meta: now = _now(); UPDATE tasks SET title=?, description=?,
\* tags=?, owner=?, priority=?, status=?, due_date=?, updated_by=?,
\* updated_at=? WHERE id=? ; the rows the WHERE matches are those stored when
\* the statement is executed, none when no task has the id
update_task_meta_update(p, task_id, f, updated_by) ==
    /\ Idle(p)
    /\ call' = [call EXCEPT ![p] =
            [Begin(p, "update_task_meta") EXCEPT
                !.pc = "update_commit", !.task_id = task_id,
                !.tx = <<[NoWrite EXCEPT
                            !.kind = "update_task",
                            !.task_id = task_id,
                            !.ids = {t.id : t \in {r \in tasks : r.id = task_id}},
                            !.fields = f,
                            !.actor = updated_by,
                            !.now = now]>>]]
    /\ UNCHANGED <<tasks, task_items, task_logs, next_id>>

\* update_task_meta: conn.commit(); conn.close()
update_task_meta_commit(p) ==
    /\ call[p].pc = "update_commit"
    /\ Commit(p)
    /\ call' = [call EXCEPT ![p] = End(call[p], "returned", "commit")]
    /\ UNCHANGED next_id

\* delete_task, first statement: DELETE FROM task_items WHERE task_id=?
delete_task_items(p, task_id) ==
    /\ Idle(p)
    /\ call' = [call EXCEPT ![p] =
            [Begin(p, "delete_task") EXCEPT
                !.pc = "delete_logs", !.task_id = task_id,
                !.tx = <<[NoWrite EXCEPT
                            !.kind = "delete_items",
                            !.ids = {it.id : it \in ItemsOf(task_items, task_id)}]>>]]
    /\ UNCHANGED <<tasks, task_items, task_logs, next_id>>

\* variant: the log cascade matches the wrong column, WHERE id=?
delete_task_logs_by_id(p) ==
    /\ call[p].pc = "delete_logs"
    /\ call' = [call EXCEPT ![p].pc = "delete_row",
                            ![p].tx = Append(@,
                                [NoWrite EXCEPT
                                    !.kind = "delete_logs",
                                    !.ids = {lg.id : lg \in
                                        {l \in task_logs : l.id = call[p].task_id}}])]
    /\ UNCHANGED <<tasks, task_items, task_logs, next_id>>

\* delete_task, second statement: DELETE FROM task_logs WHERE task_id=?
delete_task_logs(p) ==
    /\ call[p].pc = "delete_logs"
    /\ call' = [call EXCEPT ![p].pc = "delete_row",
                            ![p].tx = Append(@,
                                [NoWrite EXCEPT
                                    !.kind = "delete_logs",
                                    !.ids = {lg.id : lg \in
                                        {l \in task_logs : l.task_id = call[p].task_id}}])]
    /\ UNCHANGED <<tasks, task_items, task_logs, next_id>>

\* delete_task, third statement: DELETE FROM tasks WHERE id=?
delete_task_row(p) ==
    /\ call[p].pc = "delete_row"
    /\ call' = [call EXCEPT ![p].pc = "delete_commit",
                            ![p].tx = Append(@,
                                [NoWrite EXCEPT !.kind = "delete_task",
                                                !.task_id = call[p].task_id])]
    /\ UNCHANGED <<tasks, task_items, task_logs, next_id>>

\* delete_task: conn.commit(); conn.close()
delete_task_commit(p) ==
    /\ call[p].pc = "delete_commit"
    /\ Commit(p)
    /\ call' = [call EXCEPT ![p] = End(call[p], "returned", "commit")]
    /\ UNCHANGED next_id

\* ------------------------------------------------------------- items
\* add_item: now = _now(); pos = _next_position(cur, task_id, is_pg)
add_item_next_position(p, task_id, text, created_by) ==
    /\ Idle(p)
    /\ next_id.task_items <= MaxItemId
    /\ call' = [call EXCEPT ![p] =
            [Begin(p, "add_item") EXCEPT
                !.pc = "add_insert", !.task_id = task_id, !.text = text,
                !.actor = created_by, !.now = now,
                !.pos = next_position(task_items, task_id)]]
    /\ UNCHANGED <<tasks, task_items, task_logs, next_id>>

\* add_item: INSERT INTO task_items (task_id, text, is_done, position, ...)
add_item_insert(p) ==
    /\ call[p].pc = "add_insert"
    /\ next_id.task_items <= MaxItemId
    /\ next_id' = [next_id EXCEPT !.task_items = @ + 1]
    /\ call' = [call EXCEPT ![p].pc = "add_commit",
                            ![p].item_id = next_id.task_items,
                            ![p].tx = <<[NoWrite EXCEPT
                                !.kind = "insert_item",
                                !.id = next_id.task_items,
                                !.task_id = call[p].task_id,
                                !.text = call[p].text,
                                !.position = call[p].pos,
                                !.actor = call[p].actor,
                                !.now = call[p].now]>>]
    /\ UNCHANGED <<tasks, task_items, task_logs>>

\* add_item: conn.commit(); conn.close(); return int(iid)
add_item_commit(p) ==
    /\ call[p].pc = "add_commit"
    /\ Commit(p)
    /\ call' = [call EXCEPT ![p] = End(call[p], "returned", "commit")]
    /\ UNCHANGED next_id

\* update_item: UPDATE task_items SET text=?, updated_by=?, updated_at=?
\* WHERE id=?; commit
update_item(p, item_id, text, updated_by) ==
    /\ Idle(p)
    /\ task_items' = ApplyItems(task_items,
            [NoWrite EXCEPT !.kind = "update_text", !.id = item_id,
                            !.text = text, !.actor = updated_by, !.now = now])
    /\ call' = [call EXCEPT ![p] =
            [Begin(p, "update_item") EXCEPT !.item_id = item_id,
                                            !.result = "returned", !.exit = "commit"]]
    /\ UNCHANGED <<tasks, task_logs, next_id>>

\* toggle_item_done: UPDATE task_items SET is_done=?, updated_by=?,
\* updated_at=? WHERE id=?; commit
\* variant: the UPDATE matches the items of every task at the position of
\* the item
toggle_item_done_by_position(p, item_id, is_done, updated_by) ==
    /\ Idle(p)
    /\ task_items' =
            {IF \E me \in task_items : me.id = item_id /\ me.position = it.position
             THEN [it EXCEPT !.is_done = is_done, !.updated_by = updated_by,
                             !.updated_at = now]
             ELSE it : it \in task_items}
    /\ call' = [call EXCEPT ![p] =
            [Begin(p, "toggle_item_done") EXCEPT !.item_id = item_id,
                                                 !.result = "returned", !.exit = "commit"]]
    /\ UNCHANGED <<tasks, task_logs, next_id>>

toggle_item_done(p, item_id, is_done, updated_by) ==
    /\ Idle(p)
    /\ task_items' = ApplyItems(task_items,
            [NoWrite EXCEPT !.kind = "update_done", !.id = item_id,
                            !.is_done = is_done, !.actor = updated_by, !.now = now])
    /\ call' = [call EXCEPT ![p] =
            [Begin(p, "toggle_item_done") EXCEPT !.item_id = item_id,
                                                 !.result = "returned", !.exit = "commit"]]
    /\ UNCHANGED <<tasks, task_logs, next_id>>

\* delete_item: DELETE FROM task_items WHERE id=?; commit
\* variant: the items after the deleted one move up by one position
delete_item_renumbering(p, item_id) ==
    /\ Idle(p)
    /\ task_items' =
            {IF \E gone \in task_items :
                    /\ gone.id = item_id
                    /\ gone.task_id = it.task_id
                    /\ gone.position < it.position
             THEN [it EXCEPT !.position = @ - 1]
             ELSE it : it \in {i \in task_items : i.id # item_id}}
    /\ call' = [call EXCEPT ![p] =
            [Begin(p, "delete_item") EXCEPT !.item_id = item_id,
                                            !.result = "returned", !.exit = "commit"]]
    /\ UNCHANGED <<tasks, task_logs, next_id>>

delete_item(p, item_id) ==
    /\ Idle(p)
    /\ task_items' = {it \in task_items : it.id # item_id}
    /\ call' = [call EXCEPT ![p] =
            [Begin(p, "delete_item") EXCEPT !.item_id = item_id,
                                            !.result = "returned", !.exit = "commit"]]
    /\ UNCHANGED <<tasks, task_logs, next_id>>

\* variant: an unknown id is reported as an error
move_item_find_current_not_found(p, item_id, direction) ==
    /\ Idle(p)
    /\ LET row == {it \in task_items : it.id = item_id}
       IN  IF row = {}
           THEN call' = [call EXCEPT ![p] =
                    [Begin(p, "move_item") EXCEPT
                        !.item_id = item_id, !.direction = direction,
                        !.result = "failed", !.exit = "not_found"]]
           ELSE \E it \in row :
                call' = [call EXCEPT ![p] =
                    [Begin(p, "move_item") EXCEPT
                        !.pc = "move_neighbor", !.item_id = item_id,
                        !.direction = direction, !.task_id = it.task_id,
                        !.pos = it.position]]
    /\ UNCHANGED <<tasks, task_items, task_logs, next_id>>

\* move_item: SELECT task_id, position FROM task_items WHERE id=?;
\* an unknown id closes the connection and returns
move_item_find_current(p, item_id, direction) ==
    /\ Idle(p)
    /\ LET row == {it \in task_items : it.id = item_id}
       IN  IF row = {}
           THEN call' = [call EXCEPT ![p] =
                    [Begin(p, "move_item") EXCEPT
                        !.item_id = item_id, !.direction = direction,
                        !.result = "returned", !.exit = "no_row"]]
           ELSE \E it \in row :
                call' = [call EXCEPT ![p] =
                    [Begin(p, "move_item") EXCEPT
                        !.pc = "move_neighbor", !.item_id = item_id,
                        !.direction = direction, !.task_id = it.task_id,
                        !.pos = it.position]]
    /\ UNCHANGED <<tasks, task_items, task_logs, next_id>>

\* variant: the neighbor query of "up" is executed for either direction
move_item_find_neighbor_always_up(p) ==
    /\ call[p].pc = "move_neighbor"
    /\ LET nbs == Neighbors(task_items, call[p].task_id, call[p].pos, "up")
       IN  IF nbs = {}
           THEN call' = [call EXCEPT ![p] = End(call[p], "returned", "no_neighbor")]
           ELSE \E nb \in nbs :
                call' = [call EXCEPT ![p].pc = "move_swap_first",
                                     ![p].nb_id = nb.id,
                                     ![p].nb_pos = nb.position]
    /\ UNCHANGED <<tasks, task_items, task_logs, next_id>>

\* move_item: the neighbor query; no neighbor closes the connection and returns
move_item_find_neighbor(p) ==
    /\ call[p].pc = "move_neighbor"
    /\ LET nbs == Neighbors(task_items, call[p].task_id, call[p].pos,
                            call[p].direction)
       IN  IF nbs = {}
           THEN call' = [call EXCEPT ![p] = End(call[p], "returned", "no_neighbor")]
           ELSE \E nb \in nbs :
                call' = [call EXCEPT ![p].pc = "move_swap_first",
                                     ![p].nb_id = nb.id,
                                     ![p].nb_pos = nb.position]
    /\ UNCHANGED <<tasks, task_items, task_logs, next_id>>

\* variant: the connection is in autocommit mode, the first UPDATE is stored
\* as soon as it is executed
move_item_swap_first_autocommit(p) ==
    /\ call[p].pc = "move_swap_first"
    /\ LET w == [NoWrite EXCEPT !.kind = "update_position",
                                !.id = call[p].item_id,
                                !.position = call[p].nb_pos]
       IN  /\ task_items' = ApplyItems(task_items, w)
           /\ call' = [call EXCEPT ![p].pc = "move_swap_second",
                                   ![p].tx = <<w>>]
    /\ UNCHANGED <<tasks, task_logs, next_id>>

\* move_item: UPDATE task_items SET position=nb_pos WHERE id=item_id
move_item_swap_first(p) ==
    /\ call[p].pc = "move_swap_first"
    /\ call' = [call EXCEPT ![p].pc = "move_swap_second",
                            ![p].tx = <<[NoWrite EXCEPT
                                !.kind = "update_position",
                                !.id = call[p].item_id,
                                !.position = call[p].nb_pos]>>]
    /\ UNCHANGED <<tasks, task_items, task_logs, next_id>>

\* variant: the second UPDATE writes nb_pos again instead of pos
move_item_swap_second_same(p) ==
    /\ call[p].pc = "move_swap_second"
    /\ call' = [call EXCEPT ![p].pc = "move_commit",
                            ![p].tx = Append(@, [NoWrite EXCEPT
                                !.kind = "update_position",
                                !.id = call[p].nb_id,
                                !.position = call[p].nb_pos])]
    /\ UNCHANGED <<tasks, task_items, task_logs, next_id>>

\* move_item: UPDATE task_items SET position=pos WHERE id=nb_id
move_item_swap_second(p) ==
    /\ call[p].pc = "move_swap_second"
    /\ call' = [call EXCEPT ![p].pc = "move_commit",
                            ![p].tx = Append(@, [NoWrite EXCEPT
                                !.kind = "update_position",
                                !.id = call[p].nb_id,
                                !.position = call[p].pos])]
    /\ UNCHANGED <<tasks, task_items, task_logs, next_id>>

\* move_item: conn.commit(); conn.close()
move_item_commit(p) ==
    /\ call[p].pc = "move_commit"
    /\ Commit(p)
    /\ call' = [call EXCEPT ![p] = End(call[p], "returned", "commit")]
    /\ UNCHANGED next_id

\* ------------------------------------------------------------- logs
\* add_task_log: INSERT INTO task_logs (task_id, actor, message, created_at)
add_task_log(p, task_id, actor, message) ==
    /\ Idle(p)
    /\ task_logs' = task_logs \cup
            {LogRow(next_id.task_logs, task_id, actor, message, now)}
    /\ next_id' = [next_id EXCEPT !.task_logs = @ + 1]
    /\ call' = [call EXCEPT ![p] =
            [Begin(p, "add_task_log") EXCEPT !.task_id = task_id,
                                             !.result = "returned", !.exit = "commit"]]
    /\ UNCHANGED <<tasks, task_items>>

\* a call fails between its first write and its commit (a storage error, a
\* crash): the exception leaves the function, the connection is dropped
\* without commit and its transaction is rolled back
Fail(p) ==
    /\ call[p].tx # <<>>
    /\ call' = [call EXCEPT ![p] = End(call[p], "failed", "rollback")]
    /\ UNCHANGED <<tasks, task_items, task_logs, next_id>>

\* _now(): a second of the clock passes between two calls or statements
Tick ==
    /\ now < MaxNow
    /\ now' = now + 1
    /\ UNCHANGED <<tasks, task_items, task_logs, next_id, call, assigned,
                   session_state, run, last>>

\* ------------------------------------------------------------- queries
\* ORDER BY position ASC, id ASC
ItemBefore(a, b) ==
    \/ a.position < b.position
    \/ a.position = b.position /\ a.id < b.id

RECURSIVE OrderItems(_)
OrderItems(S) ==
    IF S = {} THEN <<>>
    ELSE LET first == CHOOSE x \in S : \A y \in S \ {x} : ItemBefore(x, y)
         IN  <<first>> \o OrderItems(S \ {first})

\* list_items: SELECT ... FROM task_items WHERE task_id=? ORDER BY position ASC, id ASC
list_items(task_id) == OrderItems(ItemsOf(task_items, task_id))

\* variant: ORDER BY id ASC
LogBefore_ascending(a, b) == a.id < b.id

\* ORDER BY id DESC
LogBefore(a, b) == a.id > b.id

RECURSIVE OrderLogs(_)
OrderLogs(S) ==
    IF S = {} THEN <<>>
    ELSE LET first == CHOOSE x \in S : \A y \in S \ {x} : LogBefore(x, y)
         IN  <<first>> \o OrderLogs(S \ {first})

\* get_task_logs: SELECT ... FROM task_logs WHERE task_id=? ORDER BY id DESC
get_task_logs(task_id) == OrderLogs({lg \in task_logs : lg.task_id = task_id})

\* the case folding of LIKE and ILIKE over the characters of the model
Lower(c) == CASE c = "A" -> "a" [] c = "B" -> "b" [] OTHER -> c

\* text LIKE pattern: % matches any run of characters, _ any one character,
\* every other character itself without regard to case
RECURSIVE Like(_, _)
Like(str, pattern) ==
    IF pattern = <<>> THEN str = <<>>
    ELSE IF Head(pattern) = "%"
         THEN \/ Like(str, Tail(pattern))
              \/ str # <<>> /\ Like(Tail(str), pattern)
         ELSE /\ str # <<>>
              /\ \/ Head(pattern) = "_"
                 \/ Lower(Head(pattern)) = Lower(Head(str))
              /\ Like(Tail(str), Tail(pattern))

\* variant: the rows ordered by updated_at ascending
TaskOrders_ascending(S) ==
    {seq \in [1..Cardinality(S) -> S] :
        /\ \A i, j \in DOMAIN seq : i # j => seq[i] # seq[j]
        /\ \A i, j \in DOMAIN seq :
                i < j => seq[i].updated_at <= seq[j].updated_at}

\* ORDER BY updated_at DESC: every order of the rows in which no row comes
\* before a row updated later; rows of the same second come in any order
TaskOrders(S) ==
    {seq \in [1..Cardinality(S) -> S] :
        /\ \A i, j \in DOMAIN seq : i # j => seq[i] # seq[j]
        /\ \A i, j \in DOMAIN seq :
                i < j => seq[i].updated_at >= seq[j].updated_at}

\* list_tasks: SELECT ... FROM tasks WHERE owner IN (...) AND status IN (...)
\* AND (title LIKE ? OR description LIKE ? OR tags LIKE ?) ORDER BY
\* updated_at DESC, each clause present when its argument is not empty and
\* the search pattern being '%' + search + '%'; the lists it may return
list_tasks(owners, statuses, search) ==
    LET like == <<"%">> \o search \o <<"%">>
    IN  TaskOrders({t \in tasks :
            /\ owners # {} => t.owner \in owners
            /\ statuses # {} => t.status \in statuses
            /\ search # <<>> =>
                    \/ Like(t.title, like)
                    \/ Like(t.description, like)
                    \/ Like(t.tags, like)})

\* str.strip(): the text without its leading and trailing blanks
RECURSIVE lstrip(_)
lstrip(str) ==
    IF str # <<>> /\ Head(str) = " " THEN lstrip(Tail(str)) ELSE str

RECURSIVE rstrip(_)
rstrip(str) ==
    IF str # <<>> /\ str[Len(str)] = " "
    THEN rstrip(SubSeq(str, 1, Len(str) - 1))
    ELSE str

strip(str) == rstrip(lstrip(str))

\* main: tasks = list_tasks(owners=owner_filter, statuses=status_filter,
\* search=search.strip() or None); an empty search text and None are the same
\* to "if search:".  The caller is left with the arguments and the rows.
main_list_tasks(p, owner_filter, status_filter, search) ==
    /\ Idle(p)
    /\ \E rows \in list_tasks(owner_filter, status_filter, strip(search)) :
            call' = [call EXCEPT ![p] =
                [Begin(p, "list_tasks") EXCEPT
                    !.owners = owner_filter, !.statuses = status_filter,
                    !.search = strip(search), !.rows = rows,
                    !.result = "returned", !.exit = "close"]]
    /\ UNCHANGED <<tasks, task_items, task_logs, next_id>>

\* main: logs = get_task_logs(int(selected_id)), the rows shown under
\* "Task log".  The caller is left with the task id and the rows.
main_get_task_logs(p, selected_id) ==
    /\ Idle(p)
    /\ call' = [call EXCEPT ![p] =
            [Begin(p, "get_task_logs") EXCEPT
                !.task_id = selected_id, !.rows = get_task_logs(selected_id),
                !.result = "returned", !.exit = "close"]]
    /\ UNCHANGED <<tasks, task_items, task_logs, next_id>>

\* ------------------------------------------------------------- auth.py
\* st.secrets["auth"]: the salt and, for every user, the hash of the password
\* hashlib.sha256((salt + pw).encode("utf-8")).hexdigest(): the digest of the
\* concatenation, a digest being equal only for equal texts
hash_password(pw, salt) == <<"sha256">> \o salt \o pw

Secrets ==
    [salt |-> <<"s">>,
     users |-> [u \in Users |->
                    hash_password(IF u = "alice" THEN <<"p">> ELSE <<"q">>,
                                  <<"s">>)]]

\* hmac.compare_digest(_hash_password(pw, salt), expected_hash)
verify(pw, expected_hash, salt) == hash_password(pw, salt) = expected_hash

\* what is typed into the login form
LoginNames == Users \cup {"mallory"}
LoginPasswords == {<<"p">>, <<"q">>}

\* the username typed by the one user of the specification of the workflows
AppLogins == {"bob"}

\* require_login returns st.session_state["auth_user"] when the key is there
LoggedIn == "auth_user" \in DOMAIN session_state

user == session_state["auth_user"]

\* a script run that ended: what it was, what was submitted, how it ended
EndRun(workflow, outcome, username, input) ==
    [NoRun EXCEPT !.workflow = workflow, !.outcome = outcome,
                  !.username = username, !.input = input]

\* a script run that has made its mutating call and has yet to write its log
\* entry (logs) or to rerun
StartRun(workflow, logs, task_id, item_id, message, input) ==
    [NoRun EXCEPT !.at = "mutating", !.workflow = workflow, !.logs = logs,
                  !.task_id = task_id, !.item_id = item_id,
                  !.actor = user.username, !.message = message,
                  !.input = input]

\* variant: the password is not verified for a known username
login_submit_any_password(username, password) ==
    /\ ~LoggedIn
    /\ run.at = "idle"
    /\ IF username \notin DOMAIN Secrets.users
       THEN /\ session_state' = session_state
            /\ run' = EndRun("login", "error", username, password)
       ELSE /\ session_state' =
                    [k \in DOMAIN session_state \cup {"auth_user"} |->
                        IF k = "auth_user" THEN [username |-> username]
                        ELSE session_state[k]]
            /\ run' = EndRun("login", "logged_in", username, password)
    /\ UNCHANGED <<tasks, task_items, task_logs, next_id, call>>

\* require_login, no auth_user in the session and Login pressed: an unknown
\* username or a wrong password shows an error and stops the run, a password
\* whose hash is the stored one sets auth_user
login_submit(username, password) ==
    /\ ~LoggedIn
    /\ run.at = "idle"
    /\ IF username \notin DOMAIN Secrets.users
       THEN /\ session_state' = session_state
            /\ run' = EndRun("login", "error", username, password)
       ELSE IF verify(password, Secrets.users[username], Secrets.salt)
            THEN /\ session_state' =
                        [k \in DOMAIN session_state \cup {"auth_user"} |->
                            IF k = "auth_user" THEN [username |-> username]
                            ELSE session_state[k]]
                 /\ run' = EndRun("login", "logged_in", username, password)
            ELSE /\ session_state' = session_state
                 /\ run' = EndRun("login", "error", username, password)
    /\ UNCHANGED <<tasks, task_items, task_logs, next_id, call>>

\* require_login, no auth_user in the session and Login not pressed: the
\* sign-in page is shown and st.stop() ends the run
require_login_stop ==
    /\ ~LoggedIn
    /\ run.at = "idle"
    /\ run' = EndRun("sign_in", "stopped", "", <<>>)
    /\ UNCHANGED <<tasks, task_items, task_logs, next_id, call, session_state>>

\* logout_button: st.session_state.pop("auth_user", None); st.rerun()
logout_button ==
    /\ LoggedIn
    /\ run.at = "idle"
    /\ session_state' = [k \in DOMAIN session_state \ {"auth_user"} |->
                            session_state[k]]
    /\ run' = EndRun("logout", "rerun", "", <<>>)
    /\ UNCHANGED <<tasks, task_items, task_logs, next_id, call>>

\* ------------------------------------------------------------- app.py
\* the fields of a task form as they are passed on: title, description and
\* tags stripped
Stripped(f) ==
    [f EXCEPT !.title = strip(f.title), !.description = strip(f.description),
              !.tags = strip(f.tags)]

\* what is typed into the task forms, the item fields and the log note
FormInputs ==
    {Fields(<<" ">>, <<>>, <<>>, "alice", "Medium", "Todo", "None"),
     Fields(<<"a", " ">>, <<>>, <<>>, "alice", "Medium", "Todo", "None")}
ItemInputs == {<<" ">>, <<"m", " ">>}
EditInputs == {<<" ">>, <<"t">>}
Notes == {<<" ">>, <<"n">>}

\* the page shows the tasks list_tasks returns and the selectbox offers
\* their ids (here with the sidebar filters cleared)
Selectable(task_id) ==
    \E rows \in list_tasks({}, {}, <<>>) :
        \E i \in DOMAIN rows : rows[i].id = task_id

\* the items rendered for the selected task: those of list_items
Rendered(task_id) ==
    {list_items(task_id)[i] : i \in DOMAIN list_items(task_id)}

\* the script run may write one more log entry
CanLog == next_id.task_logs <= MaxAppLogId

\* "Create task" submitted: the title is required, else create_task with the
\* stripped fields; add_task_log follows
create_task_form_submit(p, f) ==
    /\ LoggedIn
    /\ run.at = "idle"
    /\ CanLog
    /\ IF strip(f.title) = <<>>
       THEN /\ run' = EndRun("create_task", "error", "", f.title)
            /\ UNCHANGED <<tasks, task_items, task_logs, next_id, call>>
       ELSE /\ create_task(p, Stripped(f), user.username)
            /\ run' = StartRun("create_task", TRUE, next_id.tasks, 0,
                    <<"Created task (status=", f.status, ", owner=", f.owner, ")">>,
                    f.title)
    /\ UNCHANGED session_state

\* "Save task" submitted for the selected task: update_task_meta with the
\* stripped fields; add_task_log with the note or "Updated task meta" follows
task_meta_form_save(p, task_id, f, note) ==
    /\ LoggedIn
    /\ run.at = "idle"
    /\ CanLog
    /\ Selectable(task_id)
    /\ update_task_meta_update(p, task_id, Stripped(f), user.username)
    /\ run' = StartRun("save_task", TRUE, task_id, 0,
            IF strip(note) # <<>> THEN strip(note) ELSE <<"Updated task meta">>,
            f.title)
    /\ UNCHANGED session_state

\* "Delete task" submitted for the selected task: delete_task, no log entry
task_meta_form_delete(p, task_id) ==
    /\ LoggedIn
    /\ run.at = "idle"
    /\ Selectable(task_id)
    /\ delete_task_items(p, task_id)
    /\ run' = StartRun("delete_task", FALSE, task_id, 0, <<>>, <<>>)
    /\ UNCHANGED session_state

\* variant: the new item text is tested before it is stripped
add_item_form_submit_unstripped(p, task_id, new_text) ==
    /\ LoggedIn
    /\ run.at = "idle"
    /\ CanLog
    /\ Selectable(task_id)
    /\ IF new_text # <<>>
       THEN /\ add_item_next_position(p, task_id, strip(new_text), user.username)
            /\ run' = StartRun("add_item", TRUE, task_id, 0,
                    <<"Added item: ">> \o strip(new_text), new_text)
       ELSE /\ run' = EndRun("add_item", "error", "", new_text)
            /\ UNCHANGED <<tasks, task_items, task_logs, next_id, call>>
    /\ UNCHANGED session_state

\* "Add item" submitted for the selected task: the stripped text must not be
\* empty, else add_item; add_task_log follows
add_item_form_submit(p, task_id, new_text) ==
    /\ LoggedIn
    /\ run.at = "idle"
    /\ CanLog
    /\ Selectable(task_id)
    /\ IF strip(new_text) # <<>>
       THEN /\ add_item_next_position(p, task_id, strip(new_text), user.username)
            /\ run' = StartRun("add_item", TRUE, task_id, 0,
                    <<"Added item: ">> \o strip(new_text), new_text)
       ELSE /\ run' = EndRun("add_item", "error", "", new_text)
            /\ UNCHANGED <<tasks, task_items, task_logs, next_id, call>>
    /\ UNCHANGED session_state

\* the checkbox of a rendered item changed: toggle_item_done to the new
\* value; add_task_log follows
checkbox_toggle(p, task_id, it) ==
    /\ LoggedIn
    /\ run.at = "idle"
    /\ CanLog
    /\ Selectable(task_id)
    /\ it \in Rendered(task_id)
    /\ toggle_item_done(p, it.id, ~it.is_done, user.username)
    /\ run' = StartRun("toggle_item", TRUE, task_id, it.id,
            <<"Toggled item ", IF ~it.is_done THEN "done" ELSE "not done", ": ">>
                \o it.text,
            <<>>)
    /\ UNCHANGED session_state

\* "Save" pressed on a rendered item: the stripped text must not be empty,
\* else update_item; add_task_log follows
item_save(p, task_id, it, edited) ==
    /\ LoggedIn
    /\ run.at = "idle"
    /\ CanLog
    /\ Selectable(task_id)
    /\ it \in Rendered(task_id)
    /\ IF strip(edited) # <<>>
       THEN /\ update_item(p, it.id, strip(edited), user.username)
            /\ run' = StartRun("save_item", TRUE, task_id, it.id,
                    <<"Edited item: ">> \o strip(edited), edited)
       ELSE /\ run' = EndRun("save_item", "error", "", edited)
            /\ UNCHANGED <<tasks, task_items, task_logs, next_id, call>>
    /\ UNCHANGED session_state

\* the up button of a rendered item: move_item(id, "up"), no log entry
item_up(p, task_id, it) ==
    /\ LoggedIn
    /\ run.at = "idle"
    /\ Selectable(task_id)
    /\ it \in Rendered(task_id)
    /\ move_item_find_current(p, it.id, "up")
    /\ run' = StartRun("move_item", FALSE, task_id, it.id, <<>>, <<>>)
    /\ UNCHANGED session_state

\* variant: the item is deleted without a log entry
item_delete_unlogged(p, task_id, it) ==
    /\ LoggedIn
    /\ run.at = "idle"
    /\ CanLog
    /\ Selectable(task_id)
    /\ it \in Rendered(task_id)
    /\ delete_item(p, it.id)
    /\ run' = StartRun("delete_item", FALSE, task_id, it.id,
            <<"Deleted item: ">> \o it.text, <<>>)
    /\ UNCHANGED session_state

\* the delete button of a rendered item: delete_item; add_task_log follows
item_delete(p, task_id, it) ==
    /\ LoggedIn
    /\ run.at = "idle"
    /\ CanLog
    /\ Selectable(task_id)
    /\ it \in Rendered(task_id)
    /\ delete_item(p, it.id)
    /\ run' = StartRun("delete_item", TRUE, task_id, it.id,
            <<"Deleted item: ">> \o it.text, <<>>)
    /\ UNCHANGED session_state

\* the add_task_log line of a workflow, once its mutating call has returned:
\* the entry goes to the selected task (to the id create_task returned) with
\* the user of the run as actor
workflow_add_task_log(p) ==
    /\ run.at = "mutating"
    /\ run.logs
    /\ Idle(p)
    /\ call[p].result = "returned"
    /\ add_task_log(p,
            IF run.workflow = "create_task" THEN call[p].task_id ELSE run.task_id,
            run.actor, run.message)
    /\ run' = [run EXCEPT !.at = "idle", !.outcome = "done"]
    /\ UNCHANGED session_state

\* the end of a script run that writes no log entry: st.rerun() after
\* delete_task or move_item, or the exception of a call that failed
workflow_rerun(p) ==
    /\ run.at = "mutating"
    /\ Idle(p)
    /\ ~run.logs \/ call[p].result = "failed"
    /\ run' = [run EXCEPT !.at = "idle",
                          !.outcome = IF call[p].result = "failed"
                                      THEN "exception" ELSE "done"]
    /\ UNCHANGED <<tasks, task_items, task_logs, next_id, call, session_state>>

\* the statements of the call a script run is in
CallStep(p) ==
    \/ update_task_meta_commit(p)
    \/ delete_task_logs(p)
    \/ delete_task_row(p)
    \/ delete_task_commit(p)
    \/ add_item_insert(p)
    \/ add_item_commit(p)
    \/ move_item_find_neighbor(p)
    \/ move_item_swap_first(p)
    \/ move_item_swap_second(p)
    \/ move_item_commit(p)
    \/ Fail(p)

\* a step of the application: a script run started by one widget, or the next
\* statement of the run in progress
StepApp(p) ==
    \/ \E username \in AppLogins, password \in LoginPasswords :
            login_submit(username, password)
    \/ require_login_stop
    \/ \E f \in FormInputs : create_task_form_submit(p, f)
    \/ \E task_id \in TaskIds, f \in FormInputs, note \in Notes :
            task_meta_form_save(p, task_id, f, note)
    \/ \E task_id \in TaskIds : task_meta_form_delete(p, task_id)
    \/ \E task_id \in TaskIds, new_text \in ItemInputs :
            add_item_form_submit(p, task_id, new_text)
    \/ \E task_id \in TaskIds, it \in task_items :
            checkbox_toggle(p, task_id, it)
    \/ \E task_id \in TaskIds, it \in task_items, edited \in EditInputs :
            item_save(p, task_id, it, edited)
    \/ \E task_id \in TaskIds, it \in task_items : item_up(p, task_id, it)
    \/ \E task_id \in TaskIds, it \in task_items : item_delete(p, task_id, it)
    \/ workflow_add_task_log(p)
    \/ workflow_rerun(p)
    \/ CallStep(p) /\ UNCHANGED <<session_state, run>>

\* one browser session, one user who stays logged in
NextApp == StepApp(1) /\ UNCHANGED <<assigned, now, last>>

SpecApp == Init /\ [][NextApp]_vars

\* the sign-in page, the logout button and the script runs that create and
\* delete tasks and items
StepAuth(p) ==
    \/ \E username \in LoginNames, password \in LoginPasswords :
            login_submit(username, password)
    \/ require_login_stop
    \/ logout_button
    \/ \E f \in FormInputs : create_task_form_submit(p, f)
    \/ \E task_id \in TaskIds : task_meta_form_delete(p, task_id)
    \/ \E task_id \in TaskIds, new_text \in ItemInputs :
            add_item_form_submit(p, task_id, new_text)
    \/ \E task_id \in TaskIds, it \in task_items : item_delete(p, task_id, it)
    \/ workflow_add_task_log(p)
    \/ workflow_rerun(p)
    \/ /\ \/ delete_task_logs(p)
          \/ delete_task_row(p)
          \/ delete_task_commit(p)
          \/ add_item_insert(p)
          \/ add_item_commit(p)
       /\ UNCHANGED <<session_state, run>>

\* one browser session, users who log in and out
NextAuth == StepAuth(1) /\ UNCHANGED <<assigned, now, last>>

SpecAuth == Init /\ [][NextAuth]_vars

\* ------------------------------------------------------------- system
Step(p) ==
    \/ \E f \in TaskInputs, created_by \in Actors : create_task(p, f, created_by)
    \/ \E task_id \in TaskIds : delete_task_items(p, task_id)
    \/ delete_task_logs(p)
    \/ delete_task_row(p)
    \/ delete_task_commit(p)
    \/ \E task_id \in TaskIds, text \in Texts, created_by \in Actors :
            add_item_next_position(p, task_id, text, created_by)
    \/ add_item_insert(p)
    \/ add_item_commit(p)
    \/ \E item_id \in ItemIds : delete_item(p, item_id)
    \/ \E item_id \in ItemIds, direction \in Directions :
            move_item_find_current(p, item_id, direction)
    \/ move_item_find_neighbor(p)
    \/ move_item_swap_first(p)
    \/ move_item_swap_second(p)
    \/ move_item_commit(p)
    \/ \E task_id \in TaskIds, actor \in Actors, message \in Messages :
            next_id.task_logs <= MaxLogId /\ add_task_log(p, task_id, actor, message)
    \/ Fail(p)

\* the history of positions: every new stored item adds its task and position
RecordAssigned ==
    assigned' = assigned \cup
        {<<n.task_id, n.position>> : n \in task_items' \ task_items}

\* calls executed one at a time: one caller, each call run to its end before
\* the next one starts (a call keeps no state of its caller between calls)
Next == Step(1) /\ UNCHANGED <<assigned, now, session_state, run, last>>

Spec == Init /\ [][Next]_vars

\* the calls on checklist items, and create_task for their tasks
StepItems(p) ==
    \/ \E f \in TaskInputs, created_by \in Actors : create_task(p, f, created_by)
    \/ \E task_id \in TaskIds, text \in Texts, created_by \in Actors :
            add_item_next_position(p, task_id, text, created_by)
    \/ add_item_insert(p)
    \/ add_item_commit(p)
    \/ \E item_id \in ItemIds : delete_item(p, item_id)
    \/ \E item_id \in ItemIds, direction \in Directions :
            move_item_find_current(p, item_id, direction)
    \/ move_item_find_neighbor(p)
    \/ move_item_swap_first(p)
    \/ move_item_swap_second(p)
    \/ move_item_commit(p)
    \/ Fail(p)

\* item calls executed one at a time
NextItems == StepItems(1) /\ RecordAssigned /\ UNCHANGED <<now, session_state, run, last>>

SpecItems == Init /\ [][NextItems]_vars

\* the life of a task: its creation, the items and log entries stored for it,
\* and its deletion
StepTasks(p) ==
    \/ \E f \in TaskInputs, created_by \in Actors : create_task(p, f, created_by)
    \/ \E task_id \in TaskIds : delete_task_items(p, task_id)
    \/ delete_task_logs(p)
    \/ delete_task_row(p)
    \/ delete_task_commit(p)
    \/ \E task_id \in TaskIds, text \in Texts, created_by \in Actors :
            add_item_next_position(p, task_id, text, created_by)
    \/ add_item_insert(p)
    \/ add_item_commit(p)
    \/ \E task_id \in TaskIds, actor \in Actors, message \in Messages :
            next_id.task_logs <= MaxLogId /\ add_task_log(p, task_id, actor, message)
    \/ Fail(p)

\* task calls executed one at a time
NextTasks == StepTasks(1) /\ UNCHANGED <<assigned, now, session_state, run, last>>

SpecTasks == Init /\ [][NextTasks]_vars

\* add_item and move_item of several callers, statement by statement
StepConcurrent(p) ==
    \/ \E f \in TaskInputs, created_by \in Actors : create_task(p, f, created_by)
    \/ \E task_id \in TaskIds, text \in Texts, created_by \in Actors :
            add_item_next_position(p, task_id, text, created_by)
    \/ add_item_insert(p)
    \/ add_item_commit(p)
    \/ \E item_id \in ItemIds, direction \in Directions :
            move_item_find_current(p, item_id, direction)
    \/ move_item_find_neighbor(p)
    \/ move_item_swap_first(p)
    \/ move_item_swap_second(p)
    \/ move_item_commit(p)

\* the statements of the callers interleave
NextConcurrent ==
    (\E p \in Procs : StepConcurrent(p)) /\ UNCHANGED <<assigned, now, session_state, run, last>>

SpecConcurrent == Init /\ [][NextConcurrent]_vars

\* update_task_meta of several callers on the tasks of the store
StepMetaConcurrent(p) ==
    \/ \E f \in TaskInputs : create_task(p, f, "alice")
    \/ \E task_id \in TaskIds, f \in MetaInputs, updated_by \in Users :
            update_task_meta_update(p, task_id, f, updated_by)
    \/ update_task_meta_commit(p)

\* the statements of the callers interleave
NextMetaConcurrent ==
    (\E p \in Procs : StepMetaConcurrent(p))
        /\ UNCHANGED <<assigned, now, session_state, run, last>>

SpecMetaConcurrent == Init /\ [][NextMetaConcurrent]_vars

\* the calls that overwrite stored fields, with the tasks and items they
\* are made on
StepUpdates(p) ==
    \/ \E f \in TaskInputs, created_by \in Actors : create_task(p, f, created_by)
    \/ \E task_id \in TaskIds, f \in MetaInputs, updated_by \in Actors :
            update_task_meta_update(p, task_id, f, updated_by)
    \/ update_task_meta_commit(p)
    \/ \E task_id \in TaskIds, text \in Texts, created_by \in Actors :
            add_item_next_position(p, task_id, text, created_by)
    \/ add_item_insert(p)
    \/ add_item_commit(p)
    \/ \E item_id \in ItemIds, text \in EditTexts, updated_by \in Actors :
            update_item(p, item_id, text, updated_by)
    \/ \E item_id \in ItemIds, is_done \in BOOLEAN, updated_by \in Actors :
            toggle_item_done(p, item_id, is_done, updated_by)
    \/ Fail(p)

\* overwriting calls executed one at a time
NextUpdates == StepUpdates(1) /\ UNCHANGED <<assigned, now, session_state, run, last>>

SpecUpdates == Init /\ [][NextUpdates]_vars

\* the fields of the tasks that are searched, and the search texts
SearchFields ==
    {Fields(<<"a", "b">>, <<>>, <<>>, "alice", "Medium", "Todo", "None"),
     Fields(<<"c">>, <<"A">>, <<>>, "bob", "Medium", "Done", "None"),
     Fields(<<"c">>, <<>>, <<"B", "a">>, "alice", "High", "Done", "None")}
Searches == {<<>>, <<" ">>, <<"A">>, <<"b", "a">>, <<"_">>, <<"%", "c">>}

\* the task list of the page: tasks are created and listed
StepSearch(p) ==
    \/ \E f \in SearchFields, created_by \in Actors : create_task(p, f, created_by)
    \/ \E owner_filter \in SUBSET Users, status_filter \in SUBSET STATUS,
          search \in Searches :
            main_list_tasks(p, owner_filter, status_filter, search)

NextSearch == StepSearch(1) /\ UNCHANGED <<assigned, now, session_state, run, last>>

SpecSearch == Init /\ [][NextSearch]_vars

\* what the overwriting calls are given in the specification of all calls
FrameFields == {Fields(<<"b">>, <<"d">>, <<"t">>, "bob", "High", "Done", "2026-01-01")}
FrameTexts == {<<"t", "e", "a">>}

\* the calls on tasks, while the clock advances
StepMeta(p) ==
    \/ \E f \in TaskInputs, created_by \in Actors : create_task(p, f, created_by)
    \/ \E task_id \in TaskIds, f \in FrameFields, updated_by \in Actors :
            update_task_meta_update(p, task_id, f, updated_by)
    \/ update_task_meta_commit(p)
    \/ \E task_id \in TaskIds : delete_task_items(p, task_id)
    \/ delete_task_logs(p)
    \/ delete_task_row(p)
    \/ delete_task_commit(p)
    \/ Fail(p)

\* task calls executed one at a time, at any second
NextMeta ==
    \/ StepMeta(1) /\ UNCHANGED <<assigned, now, session_state, run, last>>
    \/ Tick

SpecMeta == Init /\ [][NextMeta]_vars

\* the calls that write and delete log entries, while the clock advances
StepLogs(p) ==
    \/ \E f \in TaskInputs, created_by \in Actors : create_task(p, f, created_by)
    \/ \E task_id \in TaskIds, f \in FrameFields, updated_by \in Actors :
            update_task_meta_update(p, task_id, f, updated_by)
    \/ update_task_meta_commit(p)
    \/ \E task_id \in TaskIds : delete_task_items(p, task_id)
    \/ delete_task_logs(p)
    \/ delete_task_row(p)
    \/ delete_task_commit(p)
    \/ \E task_id \in TaskIds, actor \in Actors, message \in Messages :
            next_id.task_logs <= MaxLogId /\ add_task_log(p, task_id, actor, message)

\* log calls executed one at a time, at any second
NextLogs ==
    \/ StepLogs(1) /\ UNCHANGED <<assigned, now, session_state, run, last>>
    \/ Tick

SpecLogs == Init /\ [][NextLogs]_vars

\* the ids of the tasks of the store, the tasks the page shows
StoredTaskIds == {t.id : t \in tasks}

\* every call of db.py that writes, made on the tasks the page shows
StepAll(p) ==
    \/ \E f \in TaskInputs, created_by \in Actors : create_task(p, f, created_by)
    \/ \E task_id \in StoredTaskIds, f \in FrameFields, updated_by \in Actors :
            update_task_meta_update(p, task_id, f, updated_by)
    \/ update_task_meta_commit(p)
    \/ \E task_id \in StoredTaskIds : delete_task_items(p, task_id)
    \/ delete_task_logs(p)
    \/ delete_task_row(p)
    \/ delete_task_commit(p)
    \/ \E task_id \in StoredTaskIds, text \in Texts, created_by \in Actors :
            add_item_next_position(p, task_id, text, created_by)
    \/ add_item_insert(p)
    \/ add_item_commit(p)
    \/ \E item_id \in ItemIds, text \in Texts, updated_by \in {"bob"} :
            update_item(p, item_id, text, updated_by)
    \/ \E item_id \in ItemIds, updated_by \in {"bob"} :
            toggle_item_done(p, item_id, TRUE, updated_by)
    \/ \E item_id \in ItemIds : delete_item(p, item_id)
    \/ \E item_id \in ItemIds, direction \in Directions :
            move_item_find_current(p, item_id, direction)
    \/ move_item_find_neighbor(p)
    \/ move_item_swap_first(p)
    \/ move_item_swap_second(p)
    \/ move_item_commit(p)
    \/ \E task_id \in StoredTaskIds, actor \in Actors, message \in Messages :
            next_id.task_logs <= MaxLogId /\ add_task_log(p, task_id, actor, message)

\* all calls, executed one at a time
NextAll == StepAll(1) /\ UNCHANGED <<assigned, now, session_state, run, last>>

SpecAll == Init /\ [][NextAll]_vars

\* ================================================================ properties
\* no two items of one task share a position
DistinctPositions(its) ==
    \A a, b \in its :
        (a.task_id = b.task_id /\ a.position = b.position) => a.id = b.id

\* the step of caller p that commits its call op
Commits(p, op) ==
    /\ call[p].op = op
    /\ call[p].pc # "idle"
    /\ call'[p].pc = "idle"
    /\ call'[p].exit = "commit"

\* the step in which caller p, between calls, makes the single-statement call op
Makes(p, op) ==
    /\ Idle(p)
    /\ call'[p].pc = "idle"
    /\ call'[p].op = op
    /\ call'[p].exit = "commit"

\* the step in which caller p enters move_item(item_id, direction)
StartsMove(p, item_id, direction) ==
    /\ Idle(p)
    /\ call'[p] # call[p]
    /\ call'[p].op = "move_item"
    /\ call'[p].item_id = item_id
    /\ call'[p].direction = direction

\* the items of the task of it that the claims call its neighbor: the largest
\* smaller position for up, the smallest larger position for down
AdjacentOf(its, it, direction) ==
    {nb \in its :
        /\ nb.task_id = it.task_id
        /\ IF direction = "up" THEN nb.position < it.position
                               ELSE nb.position > it.position
        /\ \A o \in its :
            (o.task_id = it.task_id /\ o.position # nb.position) =>
                IF direction = "up"
                THEN ~(nb.position < o.position /\ o.position < it.position)
                ELSE ~(it.position < o.position /\ o.position < nb.position)}

IndexOf(seq, id) == CHOOSE i \in 1..Len(seq) : seq[i].id = id

StoreUnchanged == UNCHANGED <<tasks, task_items, task_logs>>

\* a task with this id is stored
TaskStored(task_id) == \E t \in tasks : t.id = task_id

\* the call in progress is move_item on the item that the call before it,
\* a committed move_item, moved the other way, and the positions were
\* distinct before that call
Reverses ==
    /\ last.op = "move_item"
    /\ last.exit = "commit"
    /\ call[1].op = "move_item"
    /\ call[1].pc # "idle"
    /\ call[1].item_id = last.item_id
    /\ call[1].direction # last.direction
    /\ DistinctPositions(last.items)

\* the history of calls: when the call of the caller ends, what it was, how
\* it ended, the items that were stored before it, and whether it was a
\* committed move_item that followed the opposite move of the same item
RecordLast ==
    last' = IF call'[1].pc = "idle" /\ call'[1] # call[1]
            THEN [op |-> call'[1].op, item_id |-> call'[1].item_id,
                  direction |-> call'[1].direction, exit |-> call'[1].exit,
                  items |-> task_items,
                  undoes |-> Reverses /\ call'[1].exit = "commit"]
            ELSE last

\* the checklist of the stored tasks: items are added, deleted and moved
StepReverse(p) ==
    \/ \E f \in TaskInputs : create_task(p, f, "alice")
    \/ \E task_id \in StoredTaskIds, text \in Texts :
            add_item_next_position(p, task_id, text, "alice")
    \/ add_item_insert(p)
    \/ add_item_commit(p)
    \/ \E item_id \in ItemIds : delete_item(p, item_id)
    \/ \E item_id \in ItemIds, direction \in Directions :
            move_item_find_current(p, item_id, direction)
    \/ move_item_find_neighbor(p)
    \/ move_item_swap_first(p)
    \/ move_item_swap_second(p)
    \/ move_item_commit(p)

\* item calls executed one at a time, the last one remembered
NextReverse ==
    StepReverse(1) /\ RecordLast /\ UNCHANGED <<assigned, now, session_state, run>>

SpecReverse == Init /\ [][NextReverse]_vars

\* the log of the selected task: tasks are created and deleted, log entries
\* are written and the log of a task is read
StepHistory(p) ==
    \/ \E f \in TaskInputs : create_task(p, f, "alice")
    \/ \E task_id \in StoredTaskIds : delete_task_items(p, task_id)
    \/ delete_task_logs(p)
    \/ delete_task_row(p)
    \/ delete_task_commit(p)
    \/ \E task_id \in StoredTaskIds, actor \in Actors, message \in Messages :
            CanLog /\ add_task_log(p, task_id, actor, message)
    \/ \E selected_id \in StoredTaskIds : main_get_task_logs(p, selected_id)

NextHistory == StepHistory(1) /\ UNCHANGED <<assigned, now, session_state, run, last>>

SpecHistory == Init /\ [][NextHistory]_vars

\* C1: in every state reached by calls executed one at a time, no two checklist
\* items of one task share a position.
C1_DistinctPositions == DistinctPositions(task_items)

\* C1 witness: a move has been committed in a stored task that holds three
\* items, and the order of its items no longer follows their ids.
C1_Witness ==
    /\ call[1].op = "move_item"
    /\ call[1].exit = "commit"
    /\ \E t \in TaskIds :
        /\ TaskStored(t)
        /\ Cardinality(ItemsOf(task_items, t)) = 3
        /\ \E a, b \in ItemsOf(task_items, t) :
                a.id < b.id /\ a.position > b.position

\* C2 (as claimed): when callers run add_item and move_item concurrently, then
\* once every call has completed no two items of a task share a position.
C2_DistinctAfterConcurrentCalls ==
    (\A p \in Procs : Idle(p))
        => \A t \in tasks : DistinctPositions(ItemsOf(task_items, t.id))

\* C3: the two position writes of move_item are one unit: a step of the call
\* after the neighbor was found either commits both writes or leaves the stored
\* items as they were (in particular a failure after the first write), and the
\* stored item and neighbor never hold the same position.
C3_SwapIsOneUnit ==
    [][\A p \in Procs :
        (/\ call[p].op = "move_item"
         /\ call[p].pc \in {"move_swap_first", "move_swap_second", "move_commit"})
        => /\ IF Commits(p, "move_item")
              THEN \A it \in task_items' :
                    /\ it.id = call[p].item_id => it.position = call[p].nb_pos
                    /\ it.id = call[p].nb_id => it.position = call[p].pos
              ELSE task_items' = task_items
           /\ \A a, b \in task_items' :
                (a.id = call[p].item_id /\ b.id = call[p].nb_id)
                    => a.position # b.position]_vars

\* C3 witness: a move_item on an item that has a neighbor failed after its
\* first write.
C3_Witness ==
    /\ call[1].op = "move_item"
    /\ call[1].result = "failed"
    /\ \E it \in task_items :
        /\ it.id = call[1].item_id
        /\ TaskStored(it.task_id)
        /\ AdjacentOf(task_items, it, call[1].direction) # {}

\* C4: move_item(id, up) on an item with a smaller position in its task goes
\* on to swap, and its commit exchanges the positions of the item and of the
\* item with the largest smaller position (down: smallest larger), changes no
\* other item, and list_items then has the two items in exchanged places.
C4_MoveExchangesNeighbors ==
    [][\A p \in Procs : \A it \in task_items :
        \A nb \in AdjacentOf(task_items, it, call[p].direction) :
            (call[p].op = "move_item" /\ call[p].item_id = it.id)
            => /\ call[p].pc = "move_neighbor"
                    => call'[p].pc = "move_swap_first"
               /\ Commits(p, "move_item")
                    => /\ task_items' = (task_items \ {it, nb}) \cup
                            {[it EXCEPT !.position = nb.position],
                             [nb EXCEPT !.position = it.position]}
                       /\ LET before == list_items(it.task_id)
                              after == list_items(it.task_id)'
                          IN  /\ Len(after) = Len(before)
                              /\ \A i \in 1..Len(before) :
                                    after[i].id =
                                        IF before[i].id = it.id THEN nb.id
                                        ELSE IF before[i].id = nb.id THEN it.id
                                        ELSE before[i].id
                              /\ IF call[p].direction = "up"
                                 THEN IndexOf(after, it.id) < IndexOf(after, nb.id)
                                 ELSE IndexOf(after, nb.id) < IndexOf(after, it.id)]_vars

\* C4 witness: a committed move up in a task of three items left the moved item
\* listed before an item created earlier.
C4_Witness ==
    /\ call[1].op = "move_item"
    /\ call[1].exit = "commit"
    /\ call[1].direction = "up"
    /\ \E a, b \in task_items :
        /\ a.id = call[1].item_id
        /\ TaskStored(a.task_id)
        /\ b.task_id = a.task_id
        /\ Cardinality(ItemsOf(task_items, a.task_id)) = 3
        /\ b.id < a.id
        /\ IndexOf(list_items(a.task_id), a.id) < IndexOf(list_items(a.task_id), b.id)

\* C5: move_item(id, up) on the item with the smallest position of its task,
\* and move_item(id, down) on the one with the largest, changes nothing stored
\* in any of its steps and returns without error.
C5_MoveAtEdgeIsNoop ==
    [][\A p \in Procs : \A it \in task_items : \A d \in Directions :
        AdjacentOf(task_items, it, d) = {}
        => /\ StartsMove(p, it.id, d)
                => StoreUnchanged /\ call'[p].pc = "move_neighbor"
           /\ (/\ call[p].op = "move_item"
               /\ call[p].pc = "move_neighbor"
               /\ call[p].item_id = it.id
               /\ call[p].direction = d)
                => /\ StoreUnchanged
                   /\ call'[p].pc = "idle"
                   /\ call'[p].result = "returned"]_vars

\* C5 witness: move_item up returned at the missing neighbor for the first item
\* of a task that holds other items.
C5_Witness ==
    /\ call[1].op = "move_item"
    /\ call[1].exit = "no_neighbor"
    /\ call[1].direction = "up"
    /\ \E it \in task_items :
        /\ it.id = call[1].item_id
        /\ TaskStored(it.task_id)
        /\ Cardinality(ItemsOf(task_items, it.task_id)) >= 2
        /\ AdjacentOf(task_items, it, "up") = {}

\* C6: once delete_task(t) has committed, t is not among list_tasks and
\* list_items(t) and get_task_logs(t) are empty.
C6_DeleteTaskCascades ==
    \A p \in Procs :
        (call[p].op = "delete_task" /\ call[p].exit = "commit")
        => /\ \A rows \in list_tasks({}, {}, <<>>) :
                \A i \in DOMAIN rows : rows[i].id # call[p].task_id
           /\ list_items(call[p].task_id) = <<>>
           /\ get_task_logs(call[p].task_id) = <<>>

\* C6 witness: delete_task has committed for the only task ever created, after
\* items and logs were stored, and no item or log is left.
C6_Witness ==
    /\ call[1].op = "delete_task"
    /\ call[1].exit = "commit"
    /\ call[1].task_id = 1
    /\ next_id.tasks = 2
    /\ next_id.task_items > 2
    /\ next_id.task_logs > 1
    /\ tasks = {} /\ task_items = {} /\ task_logs = {}

\* C7 (as claimed): delete_task and delete_item called with an id that no task,
\* respectively no item, has return without error and leave every task, item
\* and log unchanged in every step up to their commit.
C7_DeleteUnknownChangesNothing ==
    [][\A p \in Procs :
        /\ (/\ Makes(p, "delete_item")
            /\ \A it \in task_items : it.id # call'[p].item_id)
            => StoreUnchanged /\ call'[p].result = "returned"
        /\ (/\ call[p].op = "delete_task"
            /\ call[p].pc # "idle"
            /\ ~TaskStored(call[p].task_id))
            => StoreUnchanged]_vars

\* C8: the commit of add_item(t, text, actor) stores exactly one new item, of
\* task t, with the given text, is_done false and the position one above the
\* largest position held in t, or 1 when t has no item; on a task without items
\* list_items(t) is then that item alone.
C8_AddItemAppends ==
    [][\A p \in Procs :
        Commits(p, "add_item")
        => LET t == call[p].task_id
               old == {it \in task_items : it.task_id = t}
               new == task_items' \ task_items
           IN  /\ task_items \subseteq task_items'
               /\ Cardinality(new) = 1
               /\ \A n \in new :
                    /\ n.task_id = t
                    /\ n.text = call[p].text
                    /\ n.is_done = FALSE
                    /\ \A it \in task_items : it.id # n.id
                    /\ IF old = {}
                       THEN n.position = 1 /\ list_items(t)' = <<n>>
                       ELSE /\ \E it \in old : n.position = it.position + 1
                            /\ \A it \in old : n.position > it.position]_vars

\* C8 witness: add_item committed the third item of a task, at position 3,
\* with the text it was given and not done.
C8_Witness ==
    /\ call[1].op = "add_item"
    /\ call[1].exit = "commit"
    /\ \E n \in task_items :
        /\ n.id = call[1].item_id
        /\ TaskStored(n.task_id)
        /\ n.position = 3
        /\ n.text \in Texts
        /\ ~n.is_done
        /\ {it.position : it \in ItemsOf(task_items, n.task_id)} = {1, 2, 3}

\* C9 (as claimed): add_item never stores for an item of a task a position
\* that an earlier add_item has stored for another item of that task.
C9_PositionNeverReused ==
    [][\A p \in Procs :
        Commits(p, "add_item")
        => \A n \in task_items' \ task_items :
                TaskStored(n.task_id)
                    => <<n.task_id, n.position>> \notin assigned]_vars

\* C9 (amended): add_item stores a position above the position of every item
\* the task holds, so the position of an item still in the task, and a gap
\* below the largest position, are never given again; a position that was given
\* before is given again only when no item of the task holds it or a larger one.
C9_NoReuseBelowMax ==
    [][\A p \in Procs :
        Commits(p, "add_item")
        => \A n \in task_items' \ task_items :
            /\ \A it \in task_items :
                    it.task_id = n.task_id => it.position < n.position
            /\ <<n.task_id, n.position>> \in assigned
                    => \A it \in task_items :
                        it.task_id = n.task_id => it.position # n.position]_vars

\* C9 witness: after the item at position 1 was deleted, add_item stored
\* position 3 above the item at position 2 and left position 1 free.
C9_Witness ==
    /\ call[1].op = "add_item"
    /\ call[1].exit = "commit"
    /\ \E n \in task_items :
        /\ n.id = call[1].item_id
        /\ TaskStored(n.task_id)
        /\ <<n.task_id, 1>> \in assigned
        /\ \A it \in ItemsOf(task_items, n.task_id) : it.position # 1
        /\ \E it \in ItemsOf(task_items, n.task_id) : it.position = 2
        /\ n.position = 3

\* C10 (as claimed): every stored item and every stored log entry has the
\* task_id of a stored task.
C10_EveryRowHasItsTask ==
    /\ \A it \in task_items : \E t \in tasks : t.id = it.task_id
    /\ \A lg \in task_logs : \E t \in tasks : t.id = lg.task_id

\* C11 (as claimed): update_task_meta, update_item and toggle_item_done called
\* with an id that no task, respectively no item, has fail with a not-found
\* error and leave every task, item and log unchanged.
C11_UnknownIdFailsNotFound ==
    [][\A p \in Procs :
        /\ (/\ Commits(p, "update_task_meta")
            /\ ~TaskStored(call[p].task_id))
            => StoreUnchanged /\ call'[p].result = "failed"
        /\ (/\ Makes(p, "update_item") \/ Makes(p, "toggle_item_done")
            /\ \A it \in task_items : it.id # call'[p].item_id)
            => StoreUnchanged /\ call'[p].result = "failed"]_vars

\* C12 (as claimed): every stored task has a title that is not empty, whether
\* the title was stored by the create form or by Save task.
C12_TitleNeverEmpty == \A t \in tasks : t.title # <<>>

\* the step that starts the script run of the workflow with what was typed
Submits(workflow, input) ==
    /\ run.at = "idle"
    /\ run' # run
    /\ run'.workflow = workflow
    /\ run'.input = input

\* C13: the create form submitted with a title that is empty once stripped,
\* and Add item and the item Save submitted with a text that is empty once
\* stripped, end in the validation error: the run makes no call, no task or
\* item is created, no item text changes and no log entry is written.
C13_EmptyInputIsRejected ==
    [][\A input \in {f.title : f \in FormInputs} \cup ItemInputs \cup EditInputs :
        \A workflow \in {"create_task", "add_item", "save_item"} :
            (Submits(workflow, input) /\ strip(input) = <<>>)
            => /\ run'.at = "idle"
               /\ run'.outcome = "error"
               /\ StoreUnchanged
               /\ UNCHANGED <<next_id, call>>]_vars

\* C13 witness: with a task and an item stored, the item Save was submitted
\* with a blank text and ended in the error; the item has the text it was
\* added with and only the two entries of the create and the add are logged.
C13_Witness ==
    /\ run.workflow = "save_item"
    /\ run.outcome = "error"
    /\ run.input = <<" ">>
    /\ Cardinality(tasks) = 1
    /\ \E it \in task_items : it.text = <<"m">> /\ TaskStored(it.task_id)
    /\ Cardinality(task_items) = 1
    /\ Cardinality(task_logs) = 2

LoggingWorkflows ==
    {"create_task", "save_task", "add_item", "save_item", "toggle_item",
     "delete_item"}

\* the script run has made its mutating call, which returned
MutationReturned(p) ==
    /\ run.at = "mutating"
    /\ run.logs
    /\ Idle(p)
    /\ call[p].result = "returned"

\* C15: a step of the create, save task, add item, save item, toggle and
\* delete item workflows that changes a stored task or item changes rows of
\* the task of the run only and leaves the run with its call returned and its
\* log entry to write; the next step of the run then adds exactly one log
\* entry, for that task and with the logged-in user as actor, and changes no
\* task or item; a log entry is added in no other step.
C15_MutationIsLoggedOnce ==
    [][\A p \in {1} :
        /\ (/\ run'.workflow \in LoggingWorkflows
            /\ tasks' # tasks \/ task_items' # task_items)
            => /\ MutationReturned(p)'
               /\ LoggedIn
               /\ run'.actor = user.username
               /\ \A t \in (tasks' \ tasks) \cup (tasks \ tasks') :
                        t.id = run'.task_id
               /\ \A it \in (task_items' \ task_items) \cup (task_items \ task_items') :
                        it.task_id = run'.task_id
        /\ MutationReturned(p)
            => /\ run'.at = "idle"
               /\ UNCHANGED <<tasks, task_items>>
               /\ LoggedIn
               /\ \E lg \in task_logs' \ task_logs :
                    /\ task_logs' = task_logs \cup {lg}
                    /\ lg.task_id = run.task_id
                    /\ lg.actor = user.username
                    /\ lg.message = run.message
        /\ task_logs' \ task_logs # {} => MutationReturned(p)]_vars

\* C15 witness: the user bob created a task owned by alice, added an item and
\* ticked it; the three runs are done and the log of the task holds one entry
\* for each, all written by bob.
C15_Witness ==
    /\ run.workflow = "toggle_item"
    /\ run.at = "idle"
    /\ run.outcome = "done"
    /\ \E it \in task_items : it.id = run.item_id /\ it.is_done
    /\ \E t \in tasks : t.id = run.task_id /\ t.owner = "alice"
    /\ Len(get_task_logs(run.task_id)) = 3
    /\ \A i \in 1..3 : get_task_logs(run.task_id)[i].actor = "bob"
    /\ get_task_logs(run.task_id)[1].message = <<"Toggled item ", "done", ": ", "m">>

\* the ids of the rows of a list
IdsOf(rows) == {rows[i].id : i \in DOMAIN rows}

\* C16: list_tasks with no owner, no status and no search text returns the
\* empty list at the start, and after every step a list that holds the ids
\* it held before, with the id of the task the step created and without the
\* id of the task whose delete_task the step committed; no id is listed
\* twice and no row comes before a row with a later updated_at.
C16_ListTasksIsTheStoredTasks ==
    /\ list_tasks({}, {}, <<>>) = {<<>>}
    /\ [][\A before \in list_tasks({}, {}, <<>>) :
            /\ list_tasks({}, {}, <<>>)' # {}
            /\ \A after \in list_tasks({}, {}, <<>>)' :
                /\ IdsOf(after) =
                        IF Makes(1, "create_task")
                        THEN IdsOf(before) \cup {call'[1].task_id}
                        ELSE IF Commits(1, "delete_task")
                             THEN IdsOf(before) \ {call[1].task_id}
                             ELSE IdsOf(before)
                /\ \A i, j \in DOMAIN after :
                    /\ i # j => after[i].id # after[j].id
                    /\ i < j => after[i].updated_at >= after[j].updated_at]_vars

\* C16 witness: two tasks were created in the same second and the first one
\* was updated a second later: list_tasks returns both, the first task first.
C16_Witness ==
    /\ call[1].op = "update_task_meta"
    /\ call[1].exit = "commit"
    /\ \E a, b \in tasks :
        /\ a.id = 1 /\ b.id = 2
        /\ a.created_at = b.created_at
        /\ a.updated_at > b.updated_at
        /\ list_tasks({}, {}, <<>>) = {<<a, b>>}

\* sub occurs in str as a run of consecutive characters, without regard to
\* case
Contains(str, sub) ==
    \E i \in 0..(Len(str) - Len(sub)) :
        \A k \in 1..Len(sub) : Lower(str[i + k]) = Lower(sub[k])

\* C17 (as claimed): list_tasks(owners, statuses, search) returns, each once,
\* exactly the stored tasks whose owner is among owners when owners is not
\* empty, whose status is among statuses when statuses is not empty, and
\* whose title, description or tags contain the search text without regard to
\* case when a search text is given; it returns a list, empty when no task
\* matches.
C17_ListTasksFilters ==
    [][\A p \in Procs :
        (Idle(p) /\ call'[p] # call[p] /\ call'[p].op = "list_tasks")
        => LET c == call'[p]
           IN  /\ c.result = "returned"
               /\ \A i, j \in DOMAIN c.rows : i # j => c.rows[i] # c.rows[j]
               /\ {c.rows[i] : i \in DOMAIN c.rows} =
                    {t \in tasks :
                        /\ c.owners # {} => t.owner \in c.owners
                        /\ c.statuses # {} => t.status \in c.statuses
                        /\ c.search # <<>> =>
                                \/ Contains(t.title, c.search)
                                \/ Contains(t.description, c.search)
                                \/ Contains(t.tags, c.search)}]_vars

\* the fields of a stored task that update_task_meta writes
EditableFields(t) == [k \in DOMAIN NoFields |-> t[k]]

\* C18: when update_task_meta calls of two callers are in progress at once,
\* each commit leaves the task it matched with the fields and the updated_by
\* of the committing call only (so the last commit wins and the row is never
\* a mixture of two calls), leaves every other task as it was, and no call
\* fails or is held up because of the other: a call that has executed its
\* UPDATE can always commit.
C18_LastWriterWins ==
    [][\A p \in Procs :
        /\ call[p].pc = "update_commit" => ENABLED update_task_meta_commit(p)
        /\ call[p].op = "update_task_meta" /\ call'[p].pc = "idle"
                => call'[p].result = "returned"
        /\ Commits(p, "update_task_meta")
            => LET w == call[p].tx[1]
               IN  /\ \A t \in tasks :
                        \E u \in tasks' :
                            /\ u.id = t.id
                            /\ IF t.id \in w.ids
                               THEN /\ EditableFields(u) = w.fields
                                    /\ u.updated_by = w.actor
                               ELSE u = t
                   /\ {u.id : u \in tasks'} = {t.id : t \in tasks}]_vars

\* one caller has committed its update of a task while the other caller's
\* update of the same task, with other fields, is still to be committed
C18_Witness ==
    \E p, q \in Procs :
        /\ p # q
        /\ call[p].op = "update_task_meta" /\ call[p].exit = "commit"
        /\ call[q].pc = "update_commit"
        /\ call[q].tx[1].ids = {call[p].task_id}
        /\ \E t \in tasks :
            /\ t.id = call[p].task_id
            /\ EditableFields(t) \in MetaInputs \ {call[q].tx[1].fields}
            /\ t.updated_by # call[q].tx[1].actor

\* C19: the application executes no task, item or log operation for a session
\* that is not authenticated: the store and the calls change only in a run
\* whose session holds auth_user, and a run past require_login has it;
\* auth_user is set only by a login whose username is among the known users
\* and whose password hashes, with the salt, to the stored hash, and it names
\* that user; a logout removes it, and without it a run can only show the
\* sign-in page or handle a login.
C19_OnlyAuthenticatedSessionsOperate ==
    [][/\ <<tasks, task_items, task_logs, next_id, call>>'
            # <<tasks, task_items, task_logs, next_id, call>>
                => LoggedIn /\ LoggedIn'
       /\ run'.at # "idle" => LoggedIn'
       /\ (~LoggedIn /\ LoggedIn')
            => /\ run'.workflow = "login"
               /\ run'.username \in DOMAIN Secrets.users
               /\ verify(run'.input, Secrets.users[run'.username], Secrets.salt)
               /\ user' = [username |-> run'.username]
       /\ ~LoggedIn => run'.workflow \in {"login", "sign_in"}
       /\ run'.workflow = "logout" => LoggedIn /\ ~LoggedIn'
       /\ (LoggedIn /\ ~LoggedIn') => run'.workflow = "logout"]_vars

\* a user has logged in and created a task, has logged out, and the next run
\* of the session was stopped at the sign-in page
C19_Witness ==
    /\ tasks # {}
    /\ ~LoggedIn
    /\ run.workflow = "sign_in"
    /\ run.outcome = "stopped"

\* the tasks a call is made on: the task whose id it is given or, for a call
\* given the id of an item, the task of that item
ItemCalls == {"update_item", "toggle_item_done", "delete_item", "move_item"}

TasksOf(c) ==
    IF c.op \in ItemCalls
    THEN {it.task_id : it \in {i \in task_items : i.id = c.item_id}}
    ELSE {c.task_id}

\* C20: a call on one task changes no other task's data: every step of
\* add_item, update_item, toggle_item_done, delete_item, move_item,
\* add_task_log, update_task_meta and delete_task made on task T, or on an
\* item of T, leaves every other task and every item and log entry of
\* another task as they were, neither changed, removed nor added.
C20_OtherTasksUnchanged ==
    [][\A p \in Procs :
        call'[p] # call[p]
        => LET T == TasksOf(call'[p])
           IN  /\ {t \in tasks : t.id \notin T} = {t \in tasks' : t.id \notin T}
               /\ {it \in task_items : it.task_id \notin T}
                    = {it \in task_items' : it.task_id \notin T}
               /\ {lg \in task_logs : lg.task_id \notin T}
                    = {lg \in task_logs' : lg.task_id \notin T}]_vars

\* an item of one task has been ticked while another task holds an item at
\* the same position that is not ticked
C20_Witness ==
    /\ call[1].op = "toggle_item_done" /\ call[1].exit = "commit"
    /\ \E a, b \in task_items :
        /\ a.id = call[1].item_id /\ a.is_done
        /\ b.task_id # a.task_id /\ b.position = a.position /\ ~b.is_done

\* C21: delete_item(id) removes the item with that id and nothing else: every
\* other item keeps its position, text and is_done (no item is renumbered),
\* and list_items of every task is the list it was with that item left out,
\* the remaining items in the same order.
C21_DeleteItemLeavesTheOthers ==
    [][\A p \in Procs :
        Makes(p, "delete_item")
        => LET id == call'[p].item_id
           IN  /\ task_items' = {it \in task_items : it.id # id}
               /\ call'[p].result = "returned"
               /\ \A task_id \in {it.task_id : it \in task_items} :
                    OrderItems(ItemsOf(task_items', task_id))
                        = SelectSeq(list_items(task_id), LAMBDA it : it.id # id)]_vars

\* delete_item has removed an item from between two items of a task: the two
\* are listed next to each other and their positions are not consecutive
C21_Witness ==
    /\ call[1].op = "delete_item"
    /\ call[1].exit = "commit"
    /\ \A it \in task_items : it.id # call[1].item_id
    /\ \E a, b \in task_items :
        /\ a.task_id = b.task_id
        /\ TaskStored(a.task_id)
        /\ a.position + 1 < b.position
        /\ \A o \in ItemsOf(task_items, a.task_id) :
                ~(a.position < o.position /\ o.position < b.position)

\* C22: get_task_logs(task) returns the log entries of the task, each once,
\* most recent first: an entry appended later has a larger id than every
\* entry stored before it, and of any two entries returned the one with the
\* larger id comes earlier in the list.
C22_LogsMostRecentFirst ==
    [][\A p \in Procs :
        /\ Makes(p, "add_task_log")
            => \A new \in task_logs' \ task_logs :
                    \A old \in task_logs : new.id > old.id
        /\ (Idle(p) /\ call'[p] # call[p] /\ call'[p].op = "get_task_logs")
            => LET rows == call'[p].rows
               IN  /\ call'[p].result = "returned"
                   /\ {rows[i] : i \in DOMAIN rows}
                        = {lg \in task_logs : lg.task_id = call'[p].task_id}
                   /\ \A i, j \in DOMAIN rows : i < j => rows[i].id > rows[j].id]_vars

\* the log of a task was read with two entries, written before and after an
\* entry of another task
C22_Witness ==
    /\ call[1].op = "get_task_logs"
    /\ Len(call[1].rows) = 2
    /\ call[1].rows[1].id = call[1].rows[2].id + 2
    /\ \E lg \in task_logs :
        /\ lg.task_id # call[1].task_id
        /\ lg.id = call[1].rows[2].id + 1

\* C23: move_item is reversible: when move_item(id, up) has exchanged the item
\* with the item above it and move_item(id, down) is called next (and the
\* same for down then up), the second call finds the item and a neighbor,
\* and its commit leaves every item as it was before the first call,
\* provided the positions within each task were distinct before it.
C23_MoveIsReversible ==
    [][/\ (/\ last.op = "move_item" /\ last.exit = "commit"
            /\ \E d \in Directions \ {last.direction} :
                    StartsMove(1, last.item_id, d))
            => call'[1].pc = "move_neighbor"
       /\ Reverses
            => /\ call[1].pc = "move_neighbor" => call'[1].pc = "move_swap_first"
               /\ call[1].pc = "move_commit"
                    => /\ task_items' = last.items
                       /\ call'[1].result = "returned"
                       /\ \A task_id \in {it.task_id : it \in task_items} :
                            OrderItems(ItemsOf(task_items', task_id))
                                = OrderItems(ItemsOf(last.items, task_id))]_vars

\* the middle item of a task of three items was moved up and then down
\* again: the call that ended last is the move down, and it undid a move up
C23_Witness ==
    /\ last.op = "move_item"
    /\ last.direction = "down"
    /\ last.undoes
    /\ \E it \in task_items :
        /\ it.id = last.item_id
        /\ Cardinality(ItemsOf(task_items, it.task_id)) = 3
        /\ AdjacentOf(task_items, it, "up") # {}
        /\ AdjacentOf(task_items, it, "down") # {}
        /\ \E mid \in last.items : mid.id = it.id /\ mid.position < it.position

\* C24: move_item called with an id that no stored item has returns at once
\* without an error and without a write: the call is over after its first
\* query, and no task, item or log entry has changed.
C24_MoveUnknownItemIsSilent ==
    [][\A p \in Procs : \A item_id \in ItemIds : \A d \in Directions :
        (/\ StartsMove(p, item_id, d)
         /\ \A it \in task_items : it.id # item_id)
        => /\ call'[p].pc = "idle"
           /\ call'[p].result = "returned"
           /\ call'[p].exit = "no_row"
           /\ call'[p].tx = <<>>
           /\ StoreUnchanged
           /\ next_id' = next_id]_vars

\* move_item has returned for the id of an item that was deleted, in a store
\* that holds two other items of one task
C24_Witness ==
    /\ call[1].op = "move_item"
    /\ call[1].result = "returned"
    /\ call[1].exit = "no_row"
    /\ call[1].item_id < next_id.task_items
    /\ \A it \in task_items : it.id # call[1].item_id
    /\ \E a, b \in task_items :
        /\ a.id # b.id
        /\ a.task_id = b.task_id
        /\ TaskStored(a.task_id)
====
